---- MODULE Spec2Model ----
(***************************************************************************)
(* Job Buddy: the response sectionizer (parse_claude_response), the        *)
(* validation gate (validate_claude_response), the resume formatter        *)
(* (format_resume_for_export) and the analyze click handlers of the two    *)
(* drafts, src/streamlit_app.py and src/job-buddy-app.py.                  *)
(*                                                                         *)
(* Text.  A Python str is modelled as a sequence of atoms.  An atom is a   *)
(* TLA+ string standing for exactly that run of characters: the one-       *)
(* character atoms "#", " ", "\n", "\r", "*", "-" and BT (one backtick),   *)
(* and whole words ("Initial", "Responses", "markdown", "A", ...).  The    *)
(* words are chosen so that no keyword the code searches for can straddle  *)
(* two atoms; Contained gives the keywords that occur inside one word      *)
(* ("Responses" contains "Response").  Every string operation of the code  *)
(* is computed on the atoms as Python computes it on the characters.       *)
(***************************************************************************)
EXTENDS Integers, Sequences, FiniteSets, TLC

VARIABLES app, authenticated, resumes, history, last, pc, raw, out

vars == <<app, authenticated, resumes, history, last, pc, raw, out>>

(***************************************************************************)
(* Atoms and the str methods the code uses.                                *)
(***************************************************************************)
NL == "\n"
CR == "\r"
SP == " "
\* One backtick character.
BT == "BT"

\* str.strip() / str.isspace(): the whitespace characters.
Whitespace == {SP, NL, CR, "\t"}

RECURSIVE LStrip(_)
LStrip(s) ==
  IF s # <<>> /\ Head(s) \in Whitespace THEN LStrip(Tail(s)) ELSE s

RECURSIVE RStrip(_)
RStrip(s) ==
  IF s # <<>> /\ s[Len(s)] \in Whitespace
  THEN RStrip(SubSeq(s, 1, Len(s) - 1)) ELSE s

\* str.strip()
Strip(s) == RStrip(LStrip(s))

\* str.isspace(): non-empty and whitespace only.
IsSpace(s) == s # <<>> /\ \A i \in 1..Len(s) : s[i] \in Whitespace

\* str.startswith(p)
StartsWith(s, p) == Len(s) >= Len(p) /\ SubSeq(s, 1, Len(p)) = p

\* str.endswith(p)
EndsWith(s, p) ==
  Len(s) >= Len(p) /\ SubSeq(s, Len(s) - Len(p) + 1, Len(s)) = p

\* p in s, for a pattern p whose words occur in texts only as whole atoms.
In(p, s) ==
  \E i \in 1..(Len(s) - Len(p) + 1) : SubSeq(s, i, i + Len(p) - 1) = p

\* str.replace(p, r): every non-overlapping occurrence, left to right.
RECURSIVE Replace(_, _, _)
Replace(s, p, r) ==
  IF s = <<>> THEN <<>>
  ELSE IF StartsWith(s, p)
    THEN r \o Replace(SubSeq(s, Len(p) + 1, Len(s)), p, r)
  ELSE <<Head(s)>> \o Replace(Tail(s), p, r)

\* str.replace(p, r, 1): the first occurrence only.
RECURSIVE ReplaceFirst(_, _, _)
ReplaceFirst(s, p, r) ==
  IF s = <<>> THEN <<>>
  ELSE IF StartsWith(s, p) THEN r \o SubSeq(s, Len(p) + 1, Len(s))
  ELSE <<Head(s)>> \o ReplaceFirst(Tail(s), p, r)

\* str.split('\n'): always at least one line.
RECURSIVE SplitAcc(_, _, _)
SplitAcc(s, sep, cur) ==
  IF s = <<>> THEN <<cur>>
  ELSE IF Head(s) = sep THEN <<cur>> \o SplitAcc(Tail(s), sep, <<>>)
  ELSE SplitAcc(Tail(s), sep, Append(cur, Head(s)))

Split(s, sep) == SplitAcc(s, sep, <<>>)

\* sep.join(lines)
RECURSIVE Join(_, _)
Join(lines, sep) ==
  IF lines = <<>> THEN <<>>
  ELSE IF Len(lines) = 1 THEN lines[1]
  ELSE lines[1] \o <<sep>> \o Join(Tail(lines), sep)

\* str.lstrip('#')
RECURSIVE LStripHash(_)
LStripHash(s) ==
  IF s # <<>> /\ Head(s) = "#" THEN LStripHash(Tail(s)) ELSE s

\* The keywords parse_claude_response looks for in a header.
Keywords ==
  {"Resume", "Tailored", "Initial", "Assessment", "Match", "Analysis",
   "Strategy", "Custom", "Response", "Follow", "Action"}

\* The keywords that occur (case-sensitively) inside one word.
Contained(w) ==
  CASE w = "Responses" -> {"Response"}
    [] w = "Actions"   -> {"Action"}
    [] w = "Follow-up" -> {"Follow"}
    [] w \in Keywords  -> {w}
    [] OTHER           -> {}

\* kw in header, for a keyword kw.
KwIn(kw, s) == \E i \in 1..Len(s) : kw \in Contained(s[i])

\* str.lower() on one word.
LowerWord(w) ==
  CASE w \in {"Markdown", "MARKDOWN"} -> "markdown"
    [] w = "Tailored" -> "tailored"
    [] w = "Resume"   -> "resume"
    [] w \in {"Match", "MATCH"} -> "match"
    [] w \in {"Analysis", "ANALYSIS"} -> "analysis"
    [] w = "Initial"  -> "initial"
    [] w = "Assessment" -> "assessment"
    [] w = "Strategy" -> "strategy"
    [] w = "Custom"   -> "custom"
    [] w = "Responses" -> "responses"
    [] w = "Follow-up" -> "follow-up"
    [] w = "Actions"  -> "actions"
    [] w = "Random"   -> "random"
    [] w = "Stuff"    -> "stuff"
    [] w = "A" -> "a"
    [] w = "B" -> "b"
    [] w = "C" -> "c"
    [] w = "X" -> "x"
    [] OTHER -> w

\* str.lower()
Lower(s) == [i \in 1..Len(s) |-> LowerWord(s[i])]

\* len() of one atom, in characters.
CharLen(w) ==
  CASE w \in {"markdown", "Markdown", "MARKDOWN", "Analysis", "Strategy",
              "Tailored", "ANALYSIS", "tailored"} -> 8
    [] w \in {"Initial", "Actions", "initial"} -> 7
    [] w \in {"Resume", "Custom", "Random", "resume"} -> 6
    [] w \in {"Match", "Stuff", "MATCH"} -> 5
    [] w \in {"Responses", "Follow-up"} -> 9
    [] w = "Assessment" -> 10
    [] OTHER -> 1

\* s[n:] where the cut falls on an atom boundary.
RECURSIVE DropChars(_, _)
DropChars(s, n) ==
  IF n <= 0 \/ s = <<>> THEN s
  ELSE DropChars(Tail(s), n - CharLen(Head(s)))

(***************************************************************************)
(* parse_claude_response                                                   *)
(***************************************************************************)
SectionNames ==
  {"Initial Assessment", "Match Analysis", "Resume Strategy",
   "Tailored Resume", "Custom Responses", "Follow-up Actions"}

\* The sections dict as first built: every section the empty string.
EmptySections == [s \in SectionNames |-> <<>>]

\* d[k] = v on a Python dict: the key is added when absent.
DictSet(d, k, v) ==
  [x \in (DOMAIN d) \cup {k} |-> IF x = k THEN v ELSE d[x]]

\* line.startswith('## ')
HeadingMarker == <<"#", "#", SP>>

IsHeadingLine(line) == StartsWith(line, HeadingMarker)

\* The heading line of each section as the prompt asks for it.
CanonicalLine ==
  [s \in SectionNames |->
     HeadingMarker \o
     (CASE s = "Initial Assessment" -> <<"Initial", SP, "Assessment">>
        [] s = "Match Analysis"     -> <<"Match", SP, "Analysis">>
        [] s = "Resume Strategy"    -> <<"Resume", SP, "Strategy">>
        [] s = "Tailored Resume"    -> <<"Tailored", SP, "Resume">>
        [] s = "Custom Responses"   -> <<"Custom", SP, "Responses">>
        [] s = "Follow-up Actions"  -> <<"Follow-up", SP, "Actions">>)]

CanonicalLines == {CanonicalLine[s] : s \in SectionNames}

\* header = line.lstrip('#').strip()
Header(line) == Strip(LStripHash(line))

\* A variant of the chain with the Strategy test ahead of the Match or
\* Analysis test.
ClassifyStrategyFirst(header, current_section) ==
  IF KwIn("Resume", header) /\ KwIn("Tailored", header) THEN "Tailored Resume"
  ELSE IF KwIn("Initial", header) \/ KwIn("Assessment", header)
    THEN "Initial Assessment"
  ELSE IF KwIn("Strategy", header) THEN "Resume Strategy"
  ELSE IF KwIn("Match", header) \/ KwIn("Analysis", header)
    THEN "Match Analysis"
  ELSE IF KwIn("Custom", header) \/ KwIn("Response", header)
    THEN "Custom Responses"
  ELSE IF KwIn("Follow", header) \/ KwIn("Action", header)
    THEN "Follow-up Actions"
  ELSE current_section

\* The if/elif chain on the header; with no match current_section is kept.
Classify(header, current_section) ==
  IF KwIn("Resume", header) /\ KwIn("Tailored", header) THEN "Tailored Resume"
  ELSE IF KwIn("Initial", header) \/ KwIn("Assessment", header)
    THEN "Initial Assessment"
  ELSE IF KwIn("Match", header) \/ KwIn("Analysis", header)
    THEN "Match Analysis"
  ELSE IF KwIn("Strategy", header) THEN "Resume Strategy"
  ELSE IF KwIn("Custom", header) \/ KwIn("Response", header)
    THEN "Custom Responses"
  ELSE IF KwIn("Follow", header) \/ KwIn("Action", header)
    THEN "Follow-up Actions"
  ELSE current_section

\* A variant that files the buffer under Initial Assessment when no section
\* is active.
FlushDefault(sections, current_section, content_buffer) ==
  IF current_section # "" /\ current_section \in DOMAIN sections
  THEN DictSet(sections, current_section, Strip(Join(content_buffer, NL)))
  ELSE DictSet(sections, "Initial Assessment",
               Strip(Join(content_buffer, NL)))

\* A variant that stores the joined buffer without trimming it.
FlushNoTrim(sections, current_section, content_buffer) ==
  IF current_section # "" /\ current_section \in DOMAIN sections
  THEN DictSet(sections, current_section, Join(content_buffer, NL))
  ELSE sections

\* if current_section and current_section in sections:
\*     sections[current_section] = '\n'.join(content_buffer).strip()
Flush(sections, current_section, content_buffer) ==
  IF current_section # "" /\ current_section \in DOMAIN sections
  THEN DictSet(sections, current_section, Strip(Join(content_buffer, NL)))
  ELSE sections

\* One iteration of the loop over analysis.split('\n').
ParseLine(line, st) ==
  IF IsHeadingLine(line)
  THEN [started         |-> TRUE,
        sections        |-> Flush(st.sections, st.current_section,
                                  st.content_buffer),
        current_section |-> Classify(Header(line), st.current_section),
        content_buffer  |-> <<>>]
  ELSE IF ~st.started /\ Strip(line) # <<>>
    THEN [st EXCEPT !.content_buffer = Append(@, line)]
  ELSE IF st.current_section # ""
    THEN [st EXCEPT !.content_buffer = Append(@, line)]
  ELSE st

RECURSIVE ParseLoop(_, _)
ParseLoop(lines, st) ==
  IF lines = <<>> THEN st
  ELSE ParseLoop(Tail(lines), ParseLine(Head(lines), st))

\* The length of the token 'markdown' cut off by [8:].
MarkdownLen == 8

\* Clean up the resume section specifically.
CleanResume(sections) ==
  IF sections["Tailored Resume"] # <<>>
  THEN LET r == Strip(sections["Tailored Resume"])
       IN  IF StartsWith(Lower(r), <<"markdown">>)
           THEN DictSet(sections, "Tailored Resume",
                        Strip(DropChars(r, MarkdownLen)))
           ELSE DictSet(sections, "Tailored Resume", r)
  ELSE sections

parse_claude_response(analysis) ==
  LET st0 == [started |-> FALSE, sections |-> EmptySections,
              current_section |-> "", content_buffer |-> <<>>]
      st  == ParseLoop(Split(analysis, NL), st0)
  IN  CleanResume(Flush(st.sections, st.current_section, st.content_buffer))

(***************************************************************************)
(* validate_claude_response                                                *)
(***************************************************************************)
\* '## ' followed by the words of a section name.
Marked(words) == HeadingMarker \o words

required_sections ==
  << Marked(<<"Initial", SP, "Assessment">>),
     Marked(<<"Match", SP, "Analysis">>),
     Marked(<<"Resume", SP, "Strategy">>),
     Marked(<<"Tailored", SP, "Resume">>) >>

\* A variant whose list lacks the Tailored Resume entry.
ValidateThree(response) ==
  \A i \in 1..(Len(required_sections) - 1) : In(required_sections[i], response)

\* all(section in response for section in required_sections)
validate_claude_response(response) ==
  \A i \in 1..Len(required_sections) : In(required_sections[i], response)

(***************************************************************************)
(* format_resume_for_export                                                *)
(***************************************************************************)
\* The code-fence marker '```'.
Fence == <<BT, BT, BT>>

\* One iteration of the loop over enumerate(lines): formatted_lines after
\* line i (1-based here, so the code's i == 0 is i = 1).
FormatLine(lines, i, formatted_lines) ==
  IF i = 1 /\ Strip(lines[i]) = <<>> THEN formatted_lines
  ELSE
    LET line == Strip(Replace(lines[i], Fence, <<>>))
    IN  IF StartsWith(line, <<"#">>)
        THEN (IF i > 1 /\ ~IsSpace(lines[i - 1]) /\ lines[i - 1] # <<>>
              THEN Append(formatted_lines, <<>>) ELSE formatted_lines)
             \o <<line, <<>>>>
        ELSE IF StartsWith(Strip(line), <<"#", "#", "#">>)
        THEN Append(formatted_lines, line)
             \o (IF i + 1 <= Len(lines) /\ ~StartsWith(lines[i + 1], <<"*">>)
                 THEN << <<>> >> ELSE <<>>)
        ELSE IF StartsWith(Strip(line), <<"*">>)
                /\ EndsWith(Strip(line), <<"*">>)
        THEN formatted_lines \o <<line, <<>>>>
        ELSE IF StartsWith(Strip(line), <<"*", "*">>)
        THEN (IF i > 1 /\ lines[i - 1] # <<>>
              THEN Append(formatted_lines, <<>>) ELSE formatted_lines)
             \o <<line>>
        ELSE IF StartsWith(Strip(line), <<"-", SP>>)
        THEN Append(formatted_lines, line)
        ELSE Append(formatted_lines, line)

RECURSIVE FormatLoop(_, _, _)
FormatLoop(lines, i, formatted_lines) ==
  IF i > Len(lines) THEN formatted_lines
  ELSE FormatLoop(lines, i + 1, FormatLine(lines, i, formatted_lines))

format_resume_for_export(resume_content) ==
  LET c1 == Strip(ReplaceFirst(resume_content, <<"markdown">>, <<>>))
      c2 == Strip(Replace(c1, Fence, <<>>))
      c3 == Replace(Replace(c2, <<CR, NL>>, <<NL>>), <<CR>>, <<NL>>)
      formatted_lines == FormatLoop(Split(c3, NL), 1, <<>>)
      result == Strip(Join(formatted_lines, NL))
  IN  Strip(Replace(Replace(result, Fence \o <<"markdown">>, <<>>),
                    Fence, <<>>))

(***************************************************************************)
(* The analyze click handlers.  A handler runs to completion on one click  *)
(* (one Streamlit script run); gen is what the generation service did:     *)
(* raised, or returned the text gen.text.                                  *)
(***************************************************************************)
\* A variant that puts the custom questions in as they are.
QuestionsSlotVerbatim(custom_questions) == custom_questions

\* {custom_questions if custom_questions else 'None'}
QuestionsSlot(custom_questions) ==
  IF custom_questions # <<>> THEN custom_questions ELSE <<"None">>

\* The prompt f-string of streamlit_app.py; each literal run of the
\* template is one atom.
StreamlitPrompt(job_post, resume_text, custom_questions) ==
  <<"Please analyze this job application following a structured format:",
    NL, NL>>
  \o CanonicalLine["Initial Assessment"]
  \o <<NL, "[Your assessment of the role, company, and requirements]",
       NL, NL>>
  \o CanonicalLine["Match Analysis"]
  \o <<NL, "[Detailed analysis of matches and gaps]", NL, NL>>
  \o CanonicalLine["Resume Strategy"]
  \o <<NL, "[Strategy for resume tailoring]", NL, NL>>
  \o CanonicalLine["Tailored Resume"]
  \o <<NL, "[Complete tailored resume in markdown format]", NL, NL>>
  \o CanonicalLine["Custom Responses"]
  \o <<NL, "[Responses to any custom questions]", NL, NL>>
  \o CanonicalLine["Follow-up Actions"]
  \o <<NL, "[Recommended next steps]", NL, NL>>
  \o <<"Job Post: ">> \o job_post
  \o <<NL, "Resume: ">> \o resume_text
  \o <<NL, "Custom Questions: ">>
  \o QuestionsSlot(custom_questions)
  \o <<NL, NL, "Remember to:", NL,
       "1. Use only quantitative metrics from the original resume", NL,
       "2. Follow the exact resume template format", NL,
       "3. Make the tailored resume immediately usable", NL,
       "4. Keep section headers exactly as shown above">>

\* The sixteen spaces that indent the continuation lines of the f-string of
\* job-buddy-app.py.
Indent == "                "

\* The prompt f-string of job-buddy-app.py.
JobBuddyPrompt(job_post, resume_text, custom_questions) ==
  <<"Job Post: ">> \o job_post
  \o <<NL, Indent, "Resume: ">> \o resume_text
  \o <<NL, Indent, "Questions: ">>
  \o QuestionsSlot(custom_questions)
  \o <<NL, Indent, NL,
       Indent, "Please analyze the job posting and resume to provide:", NL,
       Indent, "1. Overall match assessment", NL,
       Indent, "2. Key strengths aligned with the role", NL,
       Indent, "3. Potential gaps or areas to address", NL,
       Indent, "4. Suggested resume modifications", NL,
       Indent, "5. Draft responses to any custom questions", NL,
       Indent, NL,
       Indent, "Format the response in clear sections with headers.">>

\* One row of analysis_history / one dict of st.session_state.history.
HistoryEntry(job_post, resume_name, analysis) ==
  [job_post |-> job_post, resume |-> resume_name, analysis |-> analysis]

\* A variant of the try block that also saves when the call raised.
StreamlitAnalyzeSavesOnFailure(hist, job_post, selected_resume, gen) ==
  IF gen.raised
  THEN [history  |-> Append(hist, HistoryEntry(job_post, selected_resume, <<>>)),
        outcome  |-> "generation_failed",
        shown    |-> "An error occurred during analysis",
        sections |-> [kind |-> "none"]]
  ELSE IF validate_claude_response(gen.text)
  THEN [history  |-> Append(hist, HistoryEntry(job_post, selected_resume,
                                               gen.text)),
        outcome  |-> "saved",
        shown    |-> "analysis",
        sections |-> [kind |-> "sections",
                      sections |-> parse_claude_response(gen.text)]]
  ELSE [history  |-> hist,
        outcome  |-> "malformed",
        shown    |-> "Failed to generate a complete analysis. Please try again.",
        sections |-> [kind |-> "none"]]

\* The try block of streamlit_app.py once the prompt is built: the call,
\* the validation gate, parse and display, save_analysis; the except branch.
StreamlitAnalyze(hist, job_post, selected_resume, gen) ==
  IF gen.raised
  THEN [history  |-> hist,
        outcome  |-> "generation_failed",
        shown    |-> "An error occurred during analysis",
        sections |-> [kind |-> "none"]]
  ELSE IF validate_claude_response(gen.text)
  THEN [history  |-> Append(hist, HistoryEntry(job_post, selected_resume,
                                               gen.text)),
        outcome  |-> "saved",
        shown    |-> "analysis",
        sections |-> [kind |-> "sections",
                      sections |-> parse_claude_response(gen.text)]]
  ELSE [history  |-> hist,
        outcome  |-> "malformed",
        shown    |-> "Failed to generate a complete analysis. Please try again.",
        sections |-> [kind |-> "none"]]

\* The handler body of job-buddy-app.py once the prompt is built: the call,
\* history.append, st.markdown.  There is no try: a raised call ends the
\* script run there, and Streamlit shows the uncaught exception.
JobBuddyAnalyze(hist, job_post, selected_resume, gen) ==
  IF gen.raised
  THEN [history  |-> hist,
        outcome  |-> "generation_failed",
        shown    |-> "uncaught exception",
        sections |-> [kind |-> "none"]]
  ELSE [history  |-> Append(hist, HistoryEntry(job_post, selected_resume,
                                               gen.text)),
        outcome  |-> "saved",
        shown    |-> "analysis",
        sections |-> [kind |-> "none"]]

(***************************************************************************)
(* Inputs: texts made of whole lines drawn from small sets.                *)
(***************************************************************************)
\* A heading line none of the six rules matches.
RandomHeading == HeadingMarker \o <<"Random", SP, "Stuff">>

\* The longest text of the sectionizer's inputs, in lines.
MaxLines == 4

ParseLineSet ==
  CanonicalLines \cup
  {RandomHeading, <<"A">>, <<SP, "B">>, <<>>, <<"Markdown", SP, "C">>}

\* Every text of at most n lines over lineSet.
TextsOf(lineSet, n) ==
  {Join(ls, NL) : ls \in UNION {[1..k -> lineSet] : k \in 0..n}}

NoApp ==
  /\ app = "none"
  /\ authenticated = FALSE
  /\ resumes = <<>>
  /\ history = <<>>
  /\ last = [kind |-> "none"]

AppUnchanged == UNCHANGED <<app, authenticated, resumes, history, last>>

InitParse ==
  /\ NoApp
  /\ pc = "input"
  /\ raw \in TextsOf(ParseLineSet, MaxLines)
  /\ out = [kind |-> "none"]

\* sections = parse_claude_response(analysis)
ParseStep ==
  /\ pc = "input"
  /\ pc' = "parsed"
  /\ out' = [kind |-> "sections", sections |-> parse_claude_response(raw)]
  /\ UNCHANGED raw
  /\ AppUnchanged

SpecParse == InitParse /\ [][ParseStep]_vars

\* The six canonical headings in every order, one body line under each;
\* before them nothing or one line; after the k-th of them nothing or an
\* unrecognized heading with a line of its own.
SixOrders ==
  {o \in [1..Cardinality(SectionNames) -> SectionNames] :
     \A i, j \in DOMAIN o : o[i] = o[j] => i = j}

SixText(o, preamble, k) ==
  Join(preamble \o
       [i \in 1..(2 * Len(o)) |->
          IF i % 2 = 1 THEN CanonicalLine[o[(i + 1) \div 2]]
          ELSE IF i = 2 * k
            THEN Join(<< <<"A">>, RandomHeading, <<"B">> >>, NL)
          ELSE <<"A">>],
       NL)

InitSix ==
  /\ NoApp
  /\ pc = "input"
  /\ \E o \in SixOrders, preamble \in {<<>>, << <<"X">> >>},
        k \in 0..Cardinality(SectionNames) :
       raw = SixText(o, preamble, k)
  /\ out = [kind |-> "none"]

SpecSix == InitSix /\ [][ParseStep]_vars

\* The longest text of the letter-case inputs, in lines.
MaxCaseLines == 4

\* Headings in their canonical case, in lower case, in upper case and with
\* one word in lower case; two body lines.
CaseLineSet ==
  { CanonicalLine["Tailored Resume"], CanonicalLine["Match Analysis"],
    Marked(<<"tailored", SP, "resume">>),
    Marked(<<"MATCH", SP, "ANALYSIS">>),
    Marked(<<"initial", SP, "Assessment">>),
    <<"A">>, <<"B">> }

InitCase ==
  /\ NoApp
  /\ pc = "input"
  /\ raw \in TextsOf(CaseLineSet, MaxCaseLines)
  /\ out = [kind |-> "none"]

SpecCase == InitCase /\ [][ParseStep]_vars

\* The most words of a heading of the keyword inputs.
MaxHeadingWords == 3

\* A heading line of the given words, a space between two of them.
HeadingOf(words) ==
  HeadingMarker \o
  Join([i \in 1..Len(words) |-> <<words[i]>>], SP)

\* The keywords, the longer words of the canonical headings, and a word
\* with no keyword in it.
HeadingVocabulary ==
  Keywords \cup {"Responses", "Actions", "Follow-up", "Random"}

\* A heading of one to MaxHeadingWords words, then one body line.
KeywordTexts ==
  {Join(<<HeadingOf(ws), <<"A">>>>, NL) :
     ws \in UNION {[1..k -> HeadingVocabulary] : k \in 1..MaxHeadingWords}}

InitKeyword ==
  /\ NoApp
  /\ pc = "input"
  /\ raw \in KeywordTexts
  /\ out = [kind |-> "none"]

SpecKeyword == InitKeyword /\ [][ParseStep]_vars

\* The longest text of the validation gate's inputs, in lines.
MaxValidateLines == 4

\* The six headings; Tailored Resume in lower case, in mid-line, and
\* without its marker; a body line.
ValidateLineSet ==
  CanonicalLines \cup
  { Marked(<<"tailored", SP, "resume">>),
    <<"A", SP>> \o CanonicalLine["Tailored Resume"],
    <<"Tailored", SP, "Resume">>,
    <<"A">> }

InitValidate ==
  /\ NoApp
  /\ pc = "input"
  /\ raw \in TextsOf(ValidateLineSet, MaxValidateLines)
  /\ out = [kind |-> "none"]

\* validate_claude_response(analysis)
ValidateStep ==
  /\ pc = "input"
  /\ pc' = "validated"
  /\ out' = [kind |-> "verdict", valid |-> validate_claude_response(raw)]
  /\ UNCHANGED raw
  /\ AppUnchanged

SpecValidate == InitValidate /\ [][ValidateStep]_vars

\* The longest text of the formatter's inputs, in lines.
MaxFormatLines == 4

\* A header, a body line, a blank and a whitespace-only line, the word
\* markdown, a fence, a date range, a category, a bullet, a line ending a
\* CRLF pair.
FormatLineSet ==
  { <<"#", SP, "A">>, <<"B">>, <<>>, <<SP>>, <<"markdown">>, Fence,
    <<"*", "C", "*">>, <<"*", "*", "C">>, <<"-", SP, "B">>, <<"B", CR>> }

\* The input of the spec's example: markdown, a fence, a name header, a
\* city line, a fence.
FormatExample ==
  Join(<< <<"markdown">>, Fence, <<"#", SP, "A">>, <<"B">>, Fence >>, NL)

InitFormat ==
  /\ NoApp
  /\ pc = "input"
  /\ raw \in TextsOf(FormatLineSet, MaxFormatLines) \cup {FormatExample}
  /\ out = [kind |-> "none"]

\* formatted_resume = format_resume_for_export(tailored_resume)
FormatStep ==
  /\ pc = "input"
  /\ pc' = "formatted"
  /\ out' = [kind |-> "resume", text |-> format_resume_for_export(raw)]
  /\ UNCHANGED raw
  /\ AppUnchanged

SpecFormat == InitFormat /\ [][FormatStep]_vars

(***************************************************************************)
(* The two drafts as state machines: one action per button handler.  app   *)
(* is the draft that runs; resumes and history are its stores (the sqlite  *)
(* tables of streamlit_app.py, st.session_state of job-buddy-app.py; the   *)
(* timestamps are left out); last records the latest handler run, with the *)
(* stores as they were before it; raw is the reply of the latest           *)
(* generation call and out the sections it was displayed as.               *)
(***************************************************************************)
\* The most analyses a run of the model saves.
MaxHistory == 2

ResumeNames == {"r1", "r2"}

ResumeContents == {<<"cv">>}

\* The job posting text area: left empty, or filled in, once with a posting
\* that has the word None in it.
JobPosts == {<<>>, <<"job">>, <<"job", SP, "None">>}

\* The custom questions text area: left empty, or filled in.
CustomQuestions == {<<>>, <<"Q">>}

\* Replies of the generation service: all six headings; the required four
\* without Tailored Resume, and Custom Responses; no heading at all; the
\* required four with one of them a level deeper.
FullReply ==
  SixText([i \in 1..6 |->
             CASE i = 1 -> "Initial Assessment" [] i = 2 -> "Match Analysis"
               [] i = 3 -> "Resume Strategy"    [] i = 4 -> "Tailored Resume"
               [] i = 5 -> "Custom Responses"   [] i = 6 -> "Follow-up Actions"],
          <<>>, 0)

NoTailoredReply ==
  Join(<< CanonicalLine["Initial Assessment"], <<"A">>,
          CanonicalLine["Match Analysis"], <<"A">>,
          CanonicalLine["Resume Strategy"], <<"A">>,
          CanonicalLine["Custom Responses"], <<"A">> >>, NL)

PlainReply == <<"A">>

\* The required four, with Tailored Resume as a third-level heading.
DeeperHeadingReply ==
  Join(<< CanonicalLine["Initial Assessment"], <<"A">>,
          CanonicalLine["Match Analysis"], <<"A">>,
          CanonicalLine["Resume Strategy"], <<"A">>,
          <<"#">> \o CanonicalLine["Tailored Resume"], <<"B">> >>, NL)

Replies == {FullReply, NoTailoredReply, PlainReply, DeeperHeadingReply}

\* client.messages.create: raises, or returns a text.
GenOutcomes ==
  {[raised |-> TRUE, text |-> <<>>]}
  \cup {[raised |-> FALSE, text |-> t] : t \in Replies}

\* del d[k] / DELETE FROM resumes WHERE name = k
DictDel(d, k) == [x \in (DOMAIN d) \ {k} |-> d[x]]

\* The selectbox: one of the saved resumes, None ("") when there is none.
Selectable == IF DOMAIN resumes = {} THEN {""} ELSE DOMAIN resumes

Init ==
  /\ app \in {"streamlit_app", "job-buddy-app"}
  /\ authenticated = FALSE
  /\ resumes = <<>>
  /\ history = <<>>
  /\ last = [kind |-> "none"]
  /\ pc = "idle"
  /\ raw = <<>>
  /\ out = [kind |-> "none"]

\* check_password: the Login button.
Login ==
  /\ app = "streamlit_app"
  /\ ~authenticated
  /\ \E credentials_ok \in BOOLEAN :
       /\ authenticated' = credentials_ok
       /\ last' = [kind |-> "login",
                   shown |-> IF credentials_ok THEN "none"
                             ELSE "Invalid username or password"]
  /\ UNCHANGED <<app, resumes, history, pc, raw, out>>

\* The Logout button.
Logout ==
  /\ app = "streamlit_app"
  /\ authenticated
  /\ authenticated' = FALSE
  /\ last' = [kind |-> "logout", shown |-> "none"]
  /\ UNCHANGED <<app, resumes, history, pc, raw, out>>

\* The Save Resume button of streamlit_app.py (enabled only with a name
\* and content): save_resume.
SaveResume ==
  /\ app = "streamlit_app"
  /\ authenticated
  /\ \E resume_name \in ResumeNames, resume_content \in ResumeContents :
       resumes' = DictSet(resumes, resume_name, <<resume_content, "text/plain">>)
  /\ last' = [kind |-> "save_resume", shown |-> "Successfully saved resume"]
  /\ UNCHANGED <<app, authenticated, history, pc, raw, out>>

\* The Delete button of a saved resume: delete_resume.
DeleteResume ==
  /\ app = "streamlit_app"
  /\ authenticated
  /\ \E name \in DOMAIN resumes : resumes' = DictDel(resumes, name)
  /\ last' = [kind |-> "delete_resume", shown |-> "none"]
  /\ UNCHANGED <<app, authenticated, history, pc, raw, out>>

\* The Save Resume button of job-buddy-app.py: saves when both are given.
SaveResumeJobBuddy ==
  /\ app = "job-buddy-app"
  /\ \E resume_name \in ResumeNames \cup {""},
        resume_content \in ResumeContents \cup {<<>>} :
       IF resume_name # "" /\ resume_content # <<>>
       THEN /\ resumes' = DictSet(resumes, resume_name, resume_content)
            /\ last' = [kind |-> "save_resume", shown |-> "Saved resume"]
       ELSE /\ resumes' = resumes
            /\ last' = [kind |-> "save_resume", shown |-> "none"]
  /\ UNCHANGED <<app, authenticated, history, pc, raw, out>>

\* The widget values a handler run reads.
Inputs(job_post, selected_resume, custom_questions) ==
  [job_post         |-> job_post,
   selected_resume  |-> selected_resume,
   custom_questions |-> custom_questions]

\* What a handler run leaves in last.
AnalyzeRun(r, calls, prompt, inputs) ==
  [kind      |-> "analyze",
   outcome   |-> r.outcome,
   shown     |-> r.shown,
   calls     |-> calls,
   prompt    |-> prompt,
   inputs    |-> inputs,
   history0  |-> history,
   resumes0  |-> resumes]

MissingInput ==
  [history  |-> history,
   outcome  |-> "missing_input",
   shown    |-> "Please provide both a job posting and select a resume",
   sections |-> [kind |-> "none"]]

\* The Craft My Application Package button of streamlit_app.py.
CraftMyApplicationPackage ==
  /\ app = "streamlit_app"
  /\ authenticated
  /\ Len(history) < MaxHistory
  /\ \E job_post \in JobPosts, selected_resume \in Selectable,
        custom_questions \in CustomQuestions, gen \in GenOutcomes :
       IF selected_resume # "" /\ job_post # <<>>
       THEN LET prompt == StreamlitPrompt(job_post,
                                          resumes[selected_resume][1],
                                          custom_questions)
                r == StreamlitAnalyze(history, job_post, selected_resume, gen)
            IN  /\ history' = r.history
                /\ last' = AnalyzeRun(r, 1, prompt,
                                       Inputs(job_post, selected_resume,
                                              custom_questions))
                /\ raw' = gen.text
                /\ out' = r.sections
       ELSE /\ history' = history
            /\ last' = AnalyzeRun(MissingInput, 0, <<>>,
                                   Inputs(job_post, selected_resume,
                                          custom_questions))
            /\ raw' = <<>>
            /\ out' = [kind |-> "none"]
  /\ UNCHANGED <<app, authenticated, resumes, pc>>

\* The Analyze Job Fit button of job-buddy-app.py.
AnalyzeJobFit ==
  /\ app = "job-buddy-app"
  /\ Len(history) < MaxHistory
  /\ \E job_post \in JobPosts, selected_resume \in Selectable,
        custom_questions \in CustomQuestions, gen \in GenOutcomes :
       IF selected_resume # "" /\ job_post # <<>>
       THEN LET prompt == JobBuddyPrompt(job_post, resumes[selected_resume],
                                         custom_questions)
                r == JobBuddyAnalyze(history, job_post, selected_resume, gen)
            IN  /\ history' = r.history
                /\ last' = AnalyzeRun(r, 1, prompt,
                                       Inputs(job_post, selected_resume,
                                              custom_questions))
                /\ raw' = gen.text
                /\ out' = r.sections
       ELSE /\ history' = history
            /\ last' = AnalyzeRun(MissingInput, 0, <<>>,
                                   Inputs(job_post, selected_resume,
                                          custom_questions))
            /\ raw' = <<>>
            /\ out' = [kind |-> "none"]
  /\ UNCHANGED <<app, authenticated, resumes, pc>>

Next ==
  \/ Login
  \/ Logout
  \/ SaveResume
  \/ DeleteResume
  \/ SaveResumeJobBuddy
  \/ CraftMyApplicationPackage
  \/ AnalyzeJobFit

Spec == Init /\ [][Next]_vars

(***************************************************************************)
(* Reading a text line by line, for the statements below: ls is the text   *)
(* split into lines, hs the indices of its heading lines.                  *)
(***************************************************************************)
HeadingIdx(ls) == {i \in 1..Len(ls) : IsHeadingLine(ls[i])}

\* The section a heading line resolves to; "" when no rule matches.
SectionOf(line) == Classify(Header(line), "")

MatchedIdx(ls) == {i \in HeadingIdx(ls) : SectionOf(ls[i]) # ""}

\* The first index of idx after i, or one past the end of input.
NextIn(idx, i, ls) ==
  IF \E j \in idx : j > i
  THEN CHOOSE j \in idx : j > i /\ \A k \in idx : k > i => j <= k
  ELSE Len(ls) + 1

\* The lines after heading i up to the next heading line or the end.
BodyAfter(ls, hs, i) == SubSeq(ls, i + 1, NextIn(hs, i, ls) - 1)

\* A body line with something on it.
IsContentLine(line) == ~IsHeadingLine(line) /\ Strip(line) # <<>>

\* No atom of the word markdown, in any letter case, on the line.
NoMarkdown(line) == \A i \in 1..Len(line) : LowerWord(line[i]) # "markdown"

\* The line occurs, trimmed, as a line of the text t.
IsLineOf(line, t) ==
  LET tl == Split(t, NL)
  IN  \E j \in 1..Len(tl) : Strip(tl[j]) = Strip(line)

\* Every heading line is a canonical heading, and none occurs twice.
CanonicalOnce(ls, hs) ==
  /\ \A i \in hs : ls[i] \in CanonicalLines
  /\ \A i, j \in hs : ls[i] = ls[j] => i = j

\* The trimmed body under the canonical heading of s, "" when it is absent.
BodyOf(ls, hs, s) ==
  IF \E i \in hs : ls[i] = CanonicalLine[s]
  THEN LET i == CHOOSE i \in hs : ls[i] = CanonicalLine[s]
       IN  Strip(Join(BodyAfter(ls, hs, i), NL))
  ELSE <<>>

\* The text t has the characters of p somewhere in it.
Occurs(p, t) == \E i \in 0..Len(t) : StartsWith(SubSeq(t, i + 1, Len(t)), p)

\* The text with its Custom Responses and Follow-up Actions headings gone.
WithoutOptional(t) ==
  LET ls == Split(t, NL)
      keep == SelectSeq(ls, LAMBDA l :
                l \notin {CanonicalLine["Custom Responses"],
                          CanonicalLine["Follow-up Actions"]})
  IN  Join(keep, NL)

\* The text with both optional headings added at its end.
WithOptional(t) ==
  t \o <<NL>> \o CanonicalLine["Custom Responses"]
    \o <<NL>> \o CanonicalLine["Follow-up Actions"]

\* markdown on the first line, then a block between two fence lines.
MarkdownThenFencedBlock(t) ==
  /\ StartsWith(t, <<"markdown", NL>> \o Fence \o <<NL>>)
  /\ EndsWith(t, <<NL>> \o Fence)
  /\ Len(Split(t, NL)) >= 4

Parsed == pc = "parsed"

Validated == pc = "validated"

Formatted == pc = "formatted"

\* The latest handler run got a reply, and the reply fails the gate.
MalformedReply ==
  /\ last.kind = "analyze"
  /\ last.calls >= 1
  /\ last.outcome # "generation_failed"
  /\ ~validate_claude_response(raw)

\* The generation call of the latest handler run raised.
GenerationFailed ==
  last.kind = "analyze" /\ last.outcome = "generation_failed"

(***************************************************************************)
(* C1: for every raw text, also the empty one, one with no heading line    *)
(* and one whose headings are all unrecognized, the mapping returned by    *)
(* parse_claude_response has exactly the six section names as keys, and a  *)
(* section that no heading line resolves to has the empty string as value. *)
(***************************************************************************)
C1_SixKeysEmptyWithoutHeading ==
  Parsed =>
    LET ls == Split(raw, NL)
        found == {SectionOf(ls[i]) : i \in HeadingIdx(ls)}
    IN  /\ DOMAIN out.sections = SectionNames
        /\ \A s \in SectionNames \ found : out.sections[s] = <<>>

\* A text with body content and only unrecognized headings has been parsed.
C1_Witness ==
  /\ Parsed
  /\ LET ls == Split(raw, NL)
     IN  /\ HeadingIdx(ls) # {}
         /\ MatchedIdx(ls) = {}
         /\ \E k \in 1..Len(ls) : IsContentLine(ls[k])
  /\ \A s \in SectionNames : out.sections[s] = <<>>

(***************************************************************************)
(* C2: for every raw text in which all six canonical headings occur as     *)
(* heading lines, in any order, the six values are all non-empty and no    *)
(* body line of the raw text is missing from the six sections.             *)
(***************************************************************************)
C2_AllSixNonEmptyNothingMissing ==
  Parsed =>
    LET ls == Split(raw, NL)
        hs == HeadingIdx(ls)
    IN  (\A s \in SectionNames : \E i \in hs : ls[i] = CanonicalLine[s])
        => /\ \A s \in SectionNames : out.sections[s] # <<>>
           /\ \A k \in 1..Len(ls) :
                IsContentLine(ls[k])
                => \E s \in SectionNames : IsLineOf(ls[k], out.sections[s])

(***************************************************************************)
(* C3, as claimed: when every heading line is a canonical heading and each *)
(* occurs at most once, a section whose heading is present holds the lines *)
(* between that heading and the next heading line (or the end), joined by  *)
(* newlines and trimmed, and a section whose heading is absent is empty.   *)
(***************************************************************************)
C3_Original ==
  Parsed =>
    LET ls == Split(raw, NL)
        hs == HeadingIdx(ls)
    IN  CanonicalOnce(ls, hs) =>
          \A s \in SectionNames : out.sections[s] = BodyOf(ls, hs, s)

(***************************************************************************)
(* C3, as amended: as claimed for five sections; the Tailored Resume value *)
(* is its trimmed body with a leading markdown (in any letter case)        *)
(* dropped and the rest trimmed again.                                     *)
(***************************************************************************)
C3_Amended ==
  Parsed =>
    LET ls == Split(raw, NL)
        hs == HeadingIdx(ls)
    IN  CanonicalOnce(ls, hs) =>
          \A s \in SectionNames :
            LET body == BodyOf(ls, hs, s)
            IN  out.sections[s] =
                  IF s = "Tailored Resume" /\ body # <<>>
                       /\ LowerWord(Head(body)) = "markdown"
                  THEN Strip(Tail(body))
                  ELSE body

\* Two canonical headings with bodies, the Tailored Resume body starting
\* with Markdown, have been parsed.
C3_Witness ==
  /\ Parsed
  /\ LET ls == Split(raw, NL)
         hs == HeadingIdx(ls)
     IN  CanonicalOnce(ls, hs) /\ Cardinality(hs) >= 2
  /\ out.sections["Tailored Resume"] = <<"C">>
  /\ \E s \in SectionNames \ {"Tailored Resume"} : out.sections[s] # <<>>

(***************************************************************************)
(* C4: validate_claude_response accepts a raw text if and only if it       *)
(* contains all four of '## Initial Assessment', '## Match Analysis',      *)
(* '## Resume Strategy' and '## Tailored Resume', case-sensitively; a text *)
(* without '## Tailored Resume' is rejected even with the other three, and *)
(* Custom Responses and Follow-up Actions never change the verdict.        *)
(***************************************************************************)
C4_ValidateIffFourHeadings ==
  Validated =>
    /\ out.valid <=>
         /\ Occurs(<<"#", "#", SP, "Initial", SP, "Assessment">>, raw)
         /\ Occurs(<<"#", "#", SP, "Match", SP, "Analysis">>, raw)
         /\ Occurs(<<"#", "#", SP, "Resume", SP, "Strategy">>, raw)
         /\ Occurs(<<"#", "#", SP, "Tailored", SP, "Resume">>, raw)
    /\ out.valid = validate_claude_response(WithoutOptional(raw))
    /\ out.valid = validate_claude_response(WithOptional(raw))

\* A text with the other three headings and Tailored Resume only in lower
\* case has been rejected.
C4_Witness ==
  /\ Validated
  /\ ~out.valid
  /\ Occurs(<<"#", "#", SP, "Initial", SP, "Assessment">>, raw)
  /\ Occurs(<<"#", "#", SP, "Match", SP, "Analysis">>, raw)
  /\ Occurs(<<"#", "#", SP, "Resume", SP, "Strategy">>, raw)
  /\ Occurs(<<"#", "#", SP, "tailored", SP, "resume">>, raw)

(***************************************************************************)
(* C5: after any sequence of analyze actions every entry of the persisted  *)
(* history is a reply that passed the validation gate; a reply that fails  *)
(* validation is rejected before sectioning, the retry error is shown, the *)
(* history is left unchanged and no second generation call is issued.      *)
(***************************************************************************)
C5_HistoryHoldsOnlyValidatedReplies ==
  /\ \A i \in 1..Len(history) : validate_claude_response(history[i].analysis)
  /\ MalformedReply =>
       /\ out.kind = "none"
       /\ last.shown
            = "Failed to generate a complete analysis. Please try again."
       /\ history = last.history0
       /\ last.calls = 1

\* The same for streamlit_app.py alone, the draft that has the gate.
StreamlitHistoryHoldsOnlyValidatedReplies ==
  app = "streamlit_app" => C5_HistoryHoldsOnlyValidatedReplies

(***************************************************************************)
(* C6: when the generation call of an analyze action raises, the failure   *)
(* is shown, the call is not retried, the analysis history and the resume  *)
(* store are as they were before the action, and the application takes the *)
(* next action.                                                            *)
(***************************************************************************)
C6_FailedCallLeavesStoresUnchanged ==
  GenerationFailed =>
    /\ last.shown \in {"An error occurred during analysis",
                       "uncaught exception"}
    /\ last.calls = 1
    /\ history = last.history0
    /\ resumes = last.resumes0
    /\ out.kind = "none"
    /\ pc = "idle"
    /\ ENABLED (CraftMyApplicationPackage \/ AnalyzeJobFit)

\* A call raised after an earlier analysis had been saved.
C6_Witness ==
  /\ GenerationFailed
  /\ Len(history) >= 1
  /\ DOMAIN resumes # {}

(***************************************************************************)
(* C7: format_resume_for_export is idempotent: formatting its own output   *)
(* gives that output again.                                                *)
(***************************************************************************)
C7_FormatIdempotent ==
  Formatted => format_resume_for_export(out.text) = out.text

(***************************************************************************)
(* C8: the output of format_resume_for_export never contains the code      *)
(* fence of three backticks, and for an input that begins with the word    *)
(* markdown followed by a fenced block the output does not begin with      *)
(* markdown.                                                               *)
(***************************************************************************)
C8_NoFenceNoLeadingMarkdown ==
  Formatted =>
    /\ ~Occurs(Fence, out.text)
    /\ MarkdownThenFencedBlock(raw) => ~StartsWith(out.text, <<"markdown">>)

\* The first half alone: no code fence in any output.
FormatOutputHasNoFence == Formatted => ~Occurs(Fence, out.text)

(***************************************************************************)
(* C9: when a heading line matches none of the six rules while a section   *)
(* is active, the active section stays and nothing is lost: the lines      *)
(* collected before the unmatched heading and the lines after it, up to    *)
(* the next recognized heading, all end up in that section's value.        *)
(* Stated for a section that only one heading line resolves to and for     *)
(* lines without the word markdown.                                        *)
(***************************************************************************)
C9_UnmatchedHeadingKeepsContent ==
  Parsed =>
    LET ls == Split(raw, NL)
        hs == HeadingIdx(ls)
        ms == MatchedIdx(ls)
    IN  \A h \in ms : \A u \in hs \ ms :
          (/\ h < u
           /\ u < NextIn(ms, h, ls)
           /\ \A j \in ms : SectionOf(ls[j]) = SectionOf(ls[h]) => j = h)
          => \A k \in (h + 1)..(NextIn(ms, h, ls) - 1) :
               (IsContentLine(ls[k]) /\ NoMarkdown(ls[k]))
               => IsLineOf(ls[k], out.sections[SectionOf(ls[h])])

(***************************************************************************)
(* C10: non-blank lines before the first heading line are held and end up  *)
(* in the value of the section the first heading resolves to.  Stated for  *)
(* a section that only one heading line resolves to and for lines without  *)
(* the word markdown.                                                      *)
(***************************************************************************)
C10_PreambleGoesToFirstSection ==
  Parsed =>
    LET ls == Split(raw, NL)
        hs == HeadingIdx(ls)
        ms == MatchedIdx(ls)
    IN  \A f \in ms :
          (/\ \A i \in hs : f <= i
           /\ \A j \in ms : SectionOf(ls[j]) = SectionOf(ls[f]) => j = f)
          => \A k \in 1..(f - 1) :
               (IsContentLine(ls[k]) /\ NoMarkdown(ls[k]))
               => IsLineOf(ls[k], out.sections[SectionOf(ls[f])])

\* The latest handler run compiled a prompt and sent it.
Compiled == last.kind = "analyze" /\ last.calls = 1

\* The label that opens the custom-questions slot of the running draft.
SlotLabel ==
  IF app = "streamlit_app" THEN "Custom Questions: " ELSE "Questions: "

\* The slot: what follows the label on its line.  The questions of the
\* inputs are single lines.
Slot(prompt) ==
  LET a == CHOOSE i \in 1..Len(prompt) : prompt[i] = SlotLabel
      b == CHOOSE i \in (a + 1)..Len(prompt) :
             prompt[i] = NL /\ \A j \in (a + 1)..(i - 1) : prompt[j] # NL
  IN  SubSeq(prompt, a + 1, b - 1)

\* The number of times None occurs in a text.  No literal run of the two
\* templates has None in it, and of the words of the inputs only None has.
RECURSIVE CountNone(_)
CountNone(s) ==
  IF s = <<>> THEN 0
  ELSE (IF Head(s) = "None" THEN 1 ELSE 0) + CountNone(Tail(s))

\* The content of the resume the latest handler run selected.
SelectedResumeText ==
  IF app = "streamlit_app"
  THEN last.resumes0[last.inputs.selected_resume][1]
  ELSE last.resumes0[last.inputs.selected_resume]

(***************************************************************************)
(* C11, as claimed: when the custom-questions input is empty the compiled  *)
(* prompt has the literal text None in the custom-questions slot and None  *)
(* occurs exactly once in the whole prompt; when the input is not empty    *)
(* the slot holds the input text verbatim.                                 *)
(***************************************************************************)
C11_Original ==
  Compiled =>
    LET q == last.inputs.custom_questions
    IN  /\ q = <<>> => /\ Slot(last.prompt) = <<"None">>
                       /\ CountNone(last.prompt) = 1
        /\ q # <<>> => Slot(last.prompt) = q

(***************************************************************************)
(* C11, as amended: when the custom-questions input is empty the slot      *)
(* holds the literal text None, and None occurs in the whole prompt once   *)
(* more than it occurs in the job posting and the resume text together;    *)
(* when the input is not empty the slot holds the input text verbatim.     *)
(***************************************************************************)
C11_Amended ==
  Compiled =>
    LET q == last.inputs.custom_questions
    IN  /\ q = <<>> =>
             /\ Slot(last.prompt) = <<"None">>
             /\ CountNone(last.prompt)
                  = 1 + CountNone(last.inputs.job_post)
                      + CountNone(SelectedResumeText)
        /\ q # <<>> => Slot(last.prompt) = q

\* A prompt was compiled with no custom questions from a job posting that
\* has the word None in it.
C11_Witness ==
  /\ Compiled
  /\ last.inputs.custom_questions = <<>>
  /\ CountNone(last.inputs.job_post) = 1
  /\ CountNone(last.prompt) = 2

\* The canonical heading a line equals up to letter case; the line itself
\* when there is none.
CanonicalCase(line) ==
  IF \E s \in SectionNames : Lower(line) = Lower(CanonicalLine[s])
  THEN CanonicalLine[CHOOSE s \in SectionNames :
                       Lower(line) = Lower(CanonicalLine[s])]
  ELSE line

\* The text with every such line put in its canonical case.
CanonicalCaseText(t) ==
  LET ls == Split(t, NL)
  IN  Join([i \in 1..Len(ls) |-> CanonicalCase(ls[i])], NL)

(***************************************************************************)
(* C12: heading classification is case-insensitive: a heading line whose   *)
(* text equals a canonical name up to letter case goes to the same section *)
(* as the canonically cased heading, so a text is sectioned as the text    *)
(* with those headings in their canonical case is.                         *)
(***************************************************************************)
C12_ClassificationIgnoresCase ==
  Parsed =>
    LET ls == Split(raw, NL)
    IN  /\ \A i \in HeadingIdx(ls) :
             SectionOf(ls[i]) = SectionOf(CanonicalCase(ls[i]))
        /\ out.sections = parse_claude_response(CanonicalCaseText(raw))

\* The six rules in the order claimed: the section, and the keywords of
\* which the heading must have all (the first rule) or any (the others).
Rules ==
  << [section |-> "Tailored Resume",    all |-> TRUE,
      keywords |-> {"Tailored", "Resume"}],
     [section |-> "Initial Assessment", all |-> FALSE,
      keywords |-> {"Initial", "Assessment"}],
     [section |-> "Match Analysis",     all |-> FALSE,
      keywords |-> {"Match", "Analysis"}],
     [section |-> "Resume Strategy",    all |-> FALSE,
      keywords |-> {"Strategy"}],
     [section |-> "Custom Responses",   all |-> FALSE,
      keywords |-> {"Custom", "Response"}],
     [section |-> "Follow-up Actions",  all |-> FALSE,
      keywords |-> {"Follow", "Action"}] >>

\* The rule applies to a heading that has the keywords ks.
RuleApplies(rule, ks) ==
  IF rule.all THEN rule.keywords \subseteq ks
  ELSE rule.keywords \cap ks # {}

\* The section of the earliest rule that applies; "" when none does.
EarliestRule(ks) ==
  IF \E i \in 1..Len(Rules) : RuleApplies(Rules[i], ks)
  THEN Rules[CHOOSE i \in 1..Len(Rules) :
               /\ RuleApplies(Rules[i], ks)
               /\ \A j \in 1..(i - 1) : ~RuleApplies(Rules[j], ks)].section
  ELSE ""

\* The keywords the words of the first line of the text have in them.
HeadingKeywords(t) ==
  LET line == Split(t, NL)[1]
  IN  UNION {Contained(line[i]) : i \in 1..Len(line)}

(***************************************************************************)
(* C13: the six rules apply in the fixed order (Tailored and Resume),      *)
(* (Initial or Assessment), (Match or Analysis), Strategy, (Custom or      *)
(* Response), (Follow or Action), and the first that matches wins: for     *)
(* every heading over the keyword vocabulary the body under it goes to the *)
(* section of the earliest rule whose keywords the heading contains, and   *)
(* to no section when no rule matches.                                     *)
(***************************************************************************)
C13_EarliestRuleWins ==
  Parsed =>
    LET chosen == EarliestRule(HeadingKeywords(raw))
    IN  out.sections =
          [s \in SectionNames |-> IF s = chosen THEN <<"A">> ELSE <<>>]

\* A heading with both Strategy and Match went to Match Analysis, the
\* earlier of the two rules.
C13_Witness ==
  /\ Parsed
  /\ {"Match", "Strategy"} \subseteq HeadingKeywords(raw)
  /\ {"Initial", "Assessment"} \cap HeadingKeywords(raw) = {}
  /\ Split(raw, NL)[1][4] = "Strategy"
  /\ out.sections["Match Analysis"] = <<"A">>

\* The number of times the token markdown occurs in a text.
RECURSIVE CountMarkdown(_)
CountMarkdown(s) ==
  IF s = <<>> THEN 0
  ELSE (IF Head(s) = "markdown" THEN 1 ELSE 0) + CountMarkdown(Tail(s))

(***************************************************************************)
(* C14: format_resume_for_export removes the token markdown only when it   *)
(* is the first 8 characters of the input; every occurrence of markdown    *)
(* that is not at the very start of the input is still in the output.      *)
(***************************************************************************)
C14_OnlyLeadingMarkdownRemoved ==
  Formatted =>
    CountMarkdown(out.text)
      = CountMarkdown(raw) - (IF StartsWith(raw, <<"markdown">>) THEN 1 ELSE 0)

\* A line with nothing or only whitespace on it.
IsBlank(line) == Strip(line) = <<>>

\* Line i of ls has exactly one blank line before it, unless it is the first.
OneBlankBefore(ls, i) ==
  i > 1 => /\ IsBlank(ls[i - 1])
           /\ i > 2 => ~IsBlank(ls[i - 2])

\* Line i of ls has exactly one blank line after it, unless it is the last.
OneBlankAfter(ls, i) ==
  i < Len(ls) => /\ IsBlank(ls[i + 1])
                 /\ i + 2 <= Len(ls) => ~IsBlank(ls[i + 2])

(***************************************************************************)
(* C15: in the output of format_resume_for_export every line that begins   *)
(* with # and is not the first output line has exactly one blank line      *)
(* before it, and when it is not the last output line exactly one blank    *)
(* line after it, whether or not the input had blank lines around it.      *)
(***************************************************************************)
C15_OneBlankLineAroundHeaders ==
  Formatted =>
    LET ol == Split(out.text, NL)
    IN  \A i \in 1..Len(ol) :
          StartsWith(ol[i], <<"#">>)
          => OneBlankBefore(ol, i) /\ OneBlankAfter(ol, i)

\* The sections the validation gate asks for.
RequiredSections ==
  {"Initial Assessment", "Match Analysis", "Resume Strategy",
   "Tailored Resume"}

\* The latest handler run of streamlit_app.py passed the gate and went on
\* to section and display the reply.
PassedValidation ==
  /\ app = "streamlit_app"
  /\ last.kind = "analyze"
  /\ last.outcome = "saved"

(***************************************************************************)
(* C16: the validation gate and the sectionizer agree: for every raw text  *)
(* the gate accepts, the sectionizer finds for each of the four required   *)
(* sections a line starting with '## ' that it classifies to that section, *)
(* so the display step after a passed validation never gets a required     *)
(* section left unset for lack of a heading.                               *)
(***************************************************************************)
C16_GateAndSectionizerAgree ==
  PassedValidation =>
    LET ls == Split(raw, NL)
    IN  /\ validate_claude_response(raw)
        /\ out.kind = "sections"
        /\ \A s \in RequiredSections :
             \E i \in HeadingIdx(ls) : SectionOf(ls[i]) = s

====
